---- MODULE Spec2Model ----
(***************************************************************************)
(* Model of lib/compilers.js of remark-html: the visitors that compile an  *)
(* mdast tree into an HTML string.                                         *)
(*                                                                         *)
(* A JavaScript string is modelled as a sequence of tokens.  Every         *)
(* character of a node's value is one token; every tag the element builder *)
(* writes is one token carrying its name and its attributes.  Whitespace   *)
(* is therefore always visible as a token of its own, which is what the    *)
(* trimming and the newline claims are about.                              *)
(*                                                                         *)
(* The compiler object (`self` in the source) carries two fields that the  *)
(* visitors share: self.definitions and self.footnotes.  The visitors are  *)
(* operators that take the object state `ctx` and return the compiled      *)
(* value together with the object state they leave behind.                 *)
(***************************************************************************)
EXTENDS Integers, Sequences, FiniteSets, TLC

VARIABLES pending, self, result, log

vars == <<pending, self, result, log>>

(***************************************************************************)
(* Strings.                                                                *)
(***************************************************************************)

\* The value JavaScript writes as `undefined` for an absent string field.
UNDEF == "(undefined)"

Ch(c) == [kind |-> "char", name |-> c, attrs |-> <<>>]

Open(name, attrs) == [kind |-> "open", name |-> name, attrs |-> attrs]

Close(name) == [kind |-> "close", name |-> name, attrs |-> <<>>]

LF == Ch("\n")

\* A string literal of the source, one token per character.
Str(chars) == [i \in 1..Len(chars) |-> Ch(chars[i])]

IsSpace(tok) == tok.kind = "char" /\ tok.name \in {" ", "\t", "\n"}

RECURSIVE trimLeft(_)
\* trim.left(value): drop the leading whitespace.
trimLeft(value) ==
    IF value # <<>> /\ IsSpace(Head(value)) THEN trimLeft(Tail(value)) ELSE value

RECURSIVE trimRight(_)
trimRight(value) ==
    IF value # <<>> /\ IsSpace(value[Len(value)])
    THEN trimRight(SubSeq(value, 1, Len(value) - 1))
    ELSE value

\* trim(value): drop the whitespace at both ends.
trim(value) == trimRight(trimLeft(value))

RECURSIVE join(_, _)
\* Array.prototype.join: the values with `sep` between neighbours.
join(values, sep) ==
    IF values = <<>> THEN <<>>
    ELSE IF Len(values) = 1 THEN values[1]
    ELSE values[1] \o sep \o join(Tail(values), sep)

RECURSIVE AttrWidth(_)
AttrWidth(attrs) ==
    IF attrs = <<>> THEN 0
    ELSE 1 + Len(attrs[1][1]) + 2 + Len(attrs[1][2]) + 1 + AttrWidth(Tail(attrs))

\* The number of characters a token stands for.
Width(tok) ==
    CASE tok.kind = "char" -> 1
      [] tok.kind = "open" -> 1 + Len(tok.name) + AttrWidth(tok.attrs) + 1
      [] OTHER -> 2 + Len(tok.name) + 1

TabSize == 4

Spaces(n) == [i \in 1..n |-> Ch(" ")]

RECURSIVE detabFrom(_, _)
detabFrom(value, column) ==
    IF value = <<>> THEN <<>>
    ELSE LET tok == Head(value) IN
         IF tok = Ch("\t")
         THEN LET add == TabSize - (column % TabSize) IN
              Spaces(add) \o detabFrom(Tail(value), column + add)
         ELSE IF tok = LF
         THEN <<tok>> \o detabFrom(Tail(value), 0)
         ELSE <<tok>> \o detabFrom(Tail(value), column + Width(tok))

\* detab(value): expand every tab to the next tab stop.
detab(value) ==
    IF \A i \in 1..Len(value) : value[i] # Ch("\t") THEN value
    ELSE detabFrom(value, 0)

RECURSIVE encode(_)
\* context.encode(value): escape the characters reserved in HTML.
encode(value) ==
    IF value = <<>> THEN <<>>
    ELSE LET c == Head(value) IN
         (CASE c = Ch("&") -> Str(<<"&", "a", "m", "p", ";">>)
            [] c = Ch("<") -> Str(<<"&", "l", "t", ";">>)
            [] OTHER -> <<c>>) \o encode(Tail(value))

IsBlank(tok) == tok = Ch(" ") \/ tok = Ch("\t")

RECURSIVE dropBlanks(_)
dropBlanks(value) ==
    IF value # <<>> /\ IsBlank(Head(value)) THEN dropBlanks(Tail(value)) ELSE value

RECURSIVE dropBreaks(_)
dropBreaks(value) ==
    IF value # <<>> /\ (IsBlank(Head(value)) \/ Head(value) = LF)
    THEN dropBreaks(Tail(value))
    ELSE value

\* TRUE when `value` starts with blanks that run into a line feed.
BlanksThenBreak(value) ==
    LET rest == dropBlanks(value) IN rest # <<>> /\ Head(rest) = LF

RECURSIVE trimLines(_)
\* util.trimLines(value): remove the blanks around every line break and
\* write a run of line breaks as one.
trimLines(value) ==
    IF value = <<>> THEN <<>>
    ELSE IF BlanksThenBreak(value)
    THEN <<LF>> \o trimLines(dropBreaks(value))
    ELSE <<Head(value)>> \o trimLines(Tail(value))

RECURSIVE collapse(_)
\* util.collapse(value): write every run of whitespace as one space.
collapse(value) ==
    IF value = <<>> THEN <<>>
    ELSE IF IsSpace(Head(value))
    THEN <<Ch(" ")>> \o collapse(trimLeft(value))
    ELSE <<Head(value)>> \o collapse(Tail(value))

\* util.normalizeURI(uri): percent-encode what a URI may not contain.
normalizeURI(uri) ==
    CASE uri = "u 2" -> "u%202"
      [] OTHER -> uri

(***************************************************************************)
(* The element builder, lib/h.js.                                          *)
(***************************************************************************)

RECURSIVE toAttributes(_)
\* An attribute whose value is absent, null or empty is not written.
toAttributes(pairs) ==
    IF pairs = <<>> THEN <<>>
    ELSE IF pairs[1][2] = UNDEF \/ pairs[1][2] = ""
    THEN toAttributes(Tail(pairs))
    ELSE <<pairs[1]>> \o toAttributes(Tail(pairs))

\* The attributes a node carries of its own (node.attributes).
OwnAttributes(node) ==
    IF "attributes" \in DOMAIN node THEN node.attributes ELSE <<>>

\* h(context, node, name, attributes): an element without content.
hVoid(node, name, attributes) ==
    <<Open(name, toAttributes(attributes \o OwnAttributes(node)))>>

\* h(context, node, name, attributes, content, block)
h(node, name, attributes, content, block) ==
    <<Open(name, toAttributes(attributes \o OwnAttributes(node)))>>
    \o (IF block THEN <<LF>> ELSE <<>>)
    \o content
    \o (IF block /\ content # <<>> THEN <<LF>> ELSE <<>>)
    \o <<Close(name)>>

(***************************************************************************)
(* Nodes.  A node is a record with a `type` and the fields of its kind.    *)
(* The source-span field `position` is passed through uninterpreted and is *)
(* left out.                                                               *)
(***************************************************************************)

\* What an index past the end of an array reads.
NoNode == [type |-> "undefined"]

HasChildren(node) == "children" \in DOMAIN node

\* A compiled value together with the compiler object it leaves behind.
R(out, ctx) == [out |-> out, ctx |-> ctx]

\* return h(this, node, name, attributes, content, block), where `r` is
\* what the content came to and the compiler object it left.
element(node, name, attributes, r, block) ==
    R(h(node, name, attributes, r.out, block), r.ctx)

\* first || second, of two returned strings.
OrElse(first, second) == IF first.out # <<>> THEN first ELSE second

\* node.field, `undefined` when the node has no such field.
Field(node, name) == IF name \in DOMAIN node THEN node[name] ELSE UNDEF

RECURSIVE Concat(_)
\* The characters of `chars` as one attribute value.
Concat(chars) == IF chars = <<>> THEN "" ELSE Head(chars) \o Concat(Tail(chars))

\* String.prototype.toUpperCase, one letter.
UpperChar(c) ==
    CASE c = "a" -> "A"
      [] c = "b" -> "B"
      [] c = "f" -> "F"
      [] c = "o" -> "O"
      [] c = "x" -> "X"
      [] OTHER -> c

\* identifier.toUpperCase()
toUpperCase(identifier) == [i \in 1..Len(identifier) |-> UpperChar(identifier[i])]

\* String(identifier): the decimal form of a number.
String(n) == ToString(n)

(***************************************************************************)
(* mdast-util-visit: every node of one type, in document order.            *)
(***************************************************************************)

RECURSIVE visitType(_, _)
RECURSIVE visitTypeAll(_, _)
visitTypeAll(nodes, type) ==
    IF nodes = <<>> THEN <<>>
    ELSE visitType(Head(nodes), type) \o visitTypeAll(Tail(nodes), type)

visitType(node, type) ==
    (IF node.type = type THEN <<node>> ELSE <<>>)
    \o (IF HasChildren(node) THEN visitTypeAll(node.children, type) ELSE <<>>)

(***************************************************************************)
(* The visitors.                                                           *)
(***************************************************************************)

RECURSIVE visit(_, _, _)
RECURSIVE allFrom(_, _)

\* TRUE for the child that lines 146-147 take for a line break.
isBreak(prev) ==
    \/ prev.type = "break"
    \/ (prev.type = "escape" /\ prev.value = <<"\n">>)

\* Lines 142-156: what a turn of the loop does with the value `r` it got
\* from self.visit; `afterBreak` says that `prev` is a line break.
collect(st, r, afterBreak) ==
    [index |-> st.index + 1,
     values |-> IF r.out # <<>>
                THEN Append(st.values, IF afterBreak THEN trimLeft(r.out) ELSE r.out)
                ELSE st.values,
     ctx |-> r.ctx]

\* all() with the trimming after a break left out.
allStepUntrimmed(parent, st) ==
    LET r == visit(parent.children[st.index], parent, st.ctx) IN
    [index |-> st.index + 1,
     values |-> IF r.out # <<>> THEN Append(st.values, r.out) ELSE st.values,
     ctx |-> r.ctx]

\* Lines 140-156: one turn of the loop of all().  `st` holds the index of
\* the child to compile, the values collected and the compiler object;
\* `prev` is the child of the turn before, whatever it compiled to.
allStep(parent, st) ==
    collect(st, visit(parent.children[st.index], parent, st.ctx),
            st.index > 1 /\ isBreak(parent.children[st.index - 1]))

\* Lines 139-159: the loop of all().
allFrom(parent, st) ==
    IF st.index > Len(parent.children) THEN R(st.values, st.ctx)
    ELSE allFrom(parent, allStep(parent, st))

\* all(parent): the compiled children, as an array of strings.
all(parent, ctx) == allFrom(parent, [index |-> 1, values |-> <<>>, ctx |-> ctx])

\* this.all(node).join(sep)
joined(r, sep) == R(join(r.out, sep), r.ctx)

allJoined(node, sep, ctx) == joined(all(node, ctx), sep)


\* Line 54: the bracketed form of a reference, `r` being its content.
bracketed(node, r) ==
    R((IF node.type = "imageReference" THEN <<Ch("!")>> ELSE <<>>)
      \o <<Ch("[")>> \o r.out \o <<Ch("]")>>, r.ctx)

\* Lines 47-58.
failsafe(node, definition, ctx) ==
    IF Field(node, "referenceType") = "shortcut"
       /\ Field(definition, "link") \in {UNDEF, ""}
    THEN bracketed(node, IF HasChildren(node)
                         THEN allJoined(node, <<>>, ctx)
                         ELSE R(IF "alt" \in DOMAIN node THEN Str(node.alt)
                                ELSE Str(<<"u", "n", "d", "e", "f", "i", "n", "e", "d">>),
                                ctx))
    ELSE R(<<>>, ctx)

blockquote(node, ctx) ==
    element(node, "blockquote", <<>>, allJoined(node, <<LF>>, ctx), TRUE)

footnoteReference(node, ctx) ==
    LET identifier == node.identifier IN
    R(h(node, "sup", <<<<"id", "fnref-" \o identifier>>>>,
        h(node, "a", <<<<"href", "#fn-" \o identifier>>, <<"class", "footnote-ref">>>>,
          <<Ch(identifier)>>, FALSE), FALSE), ctx)

\* Lines 261-263: the identifiers of the records in the store.
identifiersOf(definitions) ==
    {definitions[i].identifier : i \in 1..Len(definitions)}

RECURSIVE nextIdentifier(_, _)

\* Lines 266-270: count up from `identifier` past every used identifier.
nextIdentifier(identifiers, identifier) ==
    IF String(identifier) \in identifiers
    THEN nextIdentifier(identifiers, identifier + 1)
    ELSE identifier

footnote(node, ctx) ==
    LET identifier == String(nextIdentifier(identifiersOf(ctx.footnotes), 1))
        pushed == [ctx EXCEPT !.footnotes =
                      Append(@, [type |-> "footnoteDefinition",
                                 identifier |-> identifier,
                                 children |-> node.children])]
    IN footnoteReference([type |-> "footnoteReference",
                          identifier |-> identifier], pushed)

list(node, ctx) ==
    element(node, IF node.ordered THEN "ol" ELSE "ul",
            <<<<"start", IF "start" \in DOMAIN node /\ node.start # 1
                         THEN String(node.start) ELSE UNDEF>>>>,
            allJoined(node, <<LF>>, ctx), TRUE)

\* `single` asking for a sole child that has children of its own.
singleNonEmpty(node, parent) ==
    /\ ~ ("loose" \in DOMAIN parent /\ parent.loose)
    /\ Len(node.children) = 1
    /\ HasChildren(node.children[1])
    /\ node.children[1].children # <<>>

\* Lines 353-355: the value of `single`, as a truth value.
single(node, parent) ==
    /\ ~ ("loose" \in DOMAIN parent /\ parent.loose)
    /\ Len(node.children) = 1
    /\ HasChildren(node.children[1])

listItem(node, parent, ctx) ==
    LET one == single(node, parent) IN
    element(node, "li", <<>>,
            allJoined(IF one THEN node.children[1] ELSE node,
                      IF one THEN <<>> ELSE <<LF>>, ctx),
            ~one)

heading(node, ctx) ==
    element(node, "h" \o String(node.depth), <<>>, allJoined(node, <<>>, ctx), FALSE)

\* trim(detab(...)) of what the children of a paragraph came to.
trimmed(r) == R(trim(detab(r.out)), r.ctx)

paragraph(node, ctx) ==
    element(node, "p", <<>>, trimmed(allJoined(node, <<>>, ctx)), FALSE)

RECURSIVE firstWord(_)
\* FIRST_WORD: the characters up to the first space or tab.
firstWord(chars) ==
    IF chars = <<>> \/ Head(chars) \in {" ", "\t"} THEN <<>>
    ELSE <<Head(chars)>> \o firstWord(Tail(chars))

code(node, ctx) ==
    LET value == IF "value" \notin DOMAIN node \/ node.value = <<>> THEN <<>>
                 ELSE detab(Str(node.value) \o <<LF>>)
        language == IF "lang" \in DOMAIN node THEN firstWord(node.lang) ELSE <<>>
        class == IF language # <<>> THEN "language-" \o Concat(language) ELSE UNDEF
    IN R(h(node, "pre", <<>>,
           h(node, "code", <<<<"class", class>>>>, encode(value), FALSE), FALSE), ctx)

html(node, ctx) ==
    R(IF ctx.options.sanitize THEN encode(Str(node.value)) ELSE Str(node.value), ctx)

rule(node, ctx) == R(hVoid(node, "hr", <<>>), ctx)

inlineCode(node, ctx) ==
    R(h(node, "code", <<>>, collapse(encode(Str(node.value))), FALSE), ctx)

strong(node, ctx) ==
    element(node, "strong", <<>>, allJoined(node, <<>>, ctx), FALSE)

emphasis(node, ctx) ==
    element(node, "em", <<>>, allJoined(node, <<>>, ctx), FALSE)

hardBreak(node, ctx) == R(hVoid(node, "br", <<>>) \o <<LF>>, ctx)

link(node, ctx) ==
    element(node, "a", <<<<"href", normalizeURI(node.href)>>,
                         <<"title", Field(node, "title")>>>>,
            allJoined(node, <<>>, ctx), FALSE)

\* self.definitions[identifier.toUpperCase()] || {}
lookup(definitions, identifier) ==
    IF toUpperCase(identifier) \in DOMAIN definitions
    THEN definitions[toUpperCase(identifier)]
    ELSE [type |-> "object"]

\* def.link || ''
linkOf(def) == IF Field(def, "link") = UNDEF THEN "" ELSE def.link

linkReference(node, ctx) ==
    LET def == lookup(ctx.definitions, node.identifier) IN
    OrElse(failsafe(node, def, ctx),
           element(node, "a", <<<<"href", normalizeURI(linkOf(def))>>,
                                <<"title", Field(def, "title")>>>>,
                   allJoined(node, <<>>, ctx), FALSE))

\* node.alt || ''
altOf(node) == IF "alt" \in DOMAIN node THEN Concat(node.alt) ELSE ""

imageReference(node, ctx) ==
    LET def == lookup(ctx.definitions, node.identifier) IN
    OrElse(failsafe(node, def, ctx),
           R(hVoid(node, "img", <<<<"src", normalizeURI(linkOf(def))>>,
                                  <<"alt", altOf(node)>>,
                                  <<"title", Field(def, "title")>>>>), ctx))

image(node, ctx) ==
    R(hVoid(node, "img", <<<<"src", normalizeURI(node.src)>>,
                           <<"alt", altOf(node)>>,
                           <<"title", Field(node, "title")>>>>), ctx)

strikethrough(node, ctx) ==
    element(node, "del", <<>>, allJoined(node, <<>>, ctx), FALSE)

text(node, ctx) == R(trimLines(encode(Str(node.value))), ctx)

escape(node, ctx) ==
    IF node.value = <<"\n">> THEN hardBreak(node, ctx) ELSE text(node, ctx)

ignore(node, ctx) == R(<<>>, ctx)

\* row[pos], `undefined` past the end of the row.
cellAt(row, pos) == IF pos <= Len(row) THEN row[pos] ELSE NoNode

\* Lines 464-466: one turn of the inner loop of table().  st.out holds
\* out[pos + 1], out[pos + 2], ... of the columns done; `r` is what the
\* content of the cell came to.
cellDone(cell, name, value, st, r) ==
    [pos |-> st.pos - 1,
     out |-> <<h(cell, name, <<<<"align", value>>>>, r.out, FALSE)>> \o st.out,
     ctx |-> r.ctx]

\* row[pos] ? self.all(row[pos]).join('\n') : ''
cellContent(cell, ctx) ==
    IF cell # NoNode THEN allJoined(cell, <<LF>>, ctx) ELSE R(<<>>, ctx)

\* The cell of column st.pos with the alignment of the column before it.
tableCellShifted(row, align, name, st) ==
    cellDone(cellAt(row, st.pos), name, align[IF st.pos > 1 THEN st.pos - 1 ELSE 1], st,
             cellContent(cellAt(row, st.pos), st.ctx))

tableCell(row, align, name, st) ==
    cellDone(cellAt(row, st.pos), name, align[st.pos], st,
             cellContent(cellAt(row, st.pos), st.ctx))

RECURSIVE tableCells(_, _, _, _)
\* Lines 463-467: the inner loop of table(), from the last column down.
tableCells(row, align, name, st) ==
    IF st.pos = 0 THEN R(st.out, st.ctx)
    ELSE tableCells(row, align, name, tableCell(row, align, name, st))

\* Line 469: result[index], of the cells `cells` of the row.  st.out holds
\* result[index + 1], result[index + 2], ... of the rows done.
rowDone(node, st, cells) ==
    [index |-> st.index - 1,
     out |-> <<h(node.children[st.index], "tr", <<>>, join(cells.out, <<LF>>), TRUE)>>
             \o st.out,
     ctx |-> cells.ctx]

\* Lines 458-469: one turn of the outer loop of table().
tableRow(node, st) ==
    rowDone(node, st,
            tableCells(node.children[st.index].children, node.align,
                       IF st.index = 1 THEN "th" ELSE "td",
                       [pos |-> Len(node.align), out |-> <<>>, ctx |-> st.ctx]))

RECURSIVE tableRows(_, _)
\* Lines 457-470: the outer loop of table(), from the last row down.
tableRows(node, st) ==
    IF st.index = 0 THEN R(st.out, st.ctx)
    ELSE tableRows(node, tableRow(node, st))

\* Lines 472-476: the return value of table(), `rows` being `result`.
tableReturn(node, rows) ==
    R(h(node, "table", <<>>,
        h(node, "thead", <<>>, rows.out[1], TRUE)
        \o <<LF>>
        \o h(node, "tbody", <<>>, join(Tail(rows.out), <<LF>>), TRUE),
        TRUE), rows.ctx)

table(node, ctx) ==
    tableReturn(node,
                tableRows(node, [index |-> Len(node.children), out |-> <<>>, ctx |-> ctx]))

\* Lines 85-102: the list item built for one record of the store.
footnoteItem(def) ==
    [type |-> "listItem",
     attributes |-> <<<<"id", "fn-" \o def.identifier>>>>,
     children |-> Append(def.children,
                         [type |-> "link",
                          href |-> "#fnref-" \o def.identifier,
                          attributes |-> <<<<"class", "footnote-backref">>>>,
                          children |-> <<[type |-> "text", value |-> <<"^">>]>>])]

\* Line 85: results[index] = `r`, what listItem returned.
itemDone(st, r) ==
    [index |-> st.index + 1, results |-> Append(st.results, r.out), ctx |-> r.ctx]

\* Lines 83-102: one turn of the loop of generateFootnotes().
footnoteStep(st) ==
    itemDone(st, listItem(footnoteItem(st.ctx.footnotes[st.index]), [type |-> "object"],
                          st.ctx))

RECURSIVE footnoteItems(_, _)
\* Lines 82-103: the loop of generateFootnotes(), over the first `length`
\* records, `length` being read once before the loop.
footnoteItems(length, st) ==
    IF st.index > length THEN R(st.results, st.ctx)
    ELSE footnoteItems(length, footnoteStep(st))

\* Lines 105-110: the section, `items` being `results`.
section(items) ==
    R(h(NoNode, "div", <<<<"class", "footnotes">>>>,
        hVoid(NoNode, "hr", <<>>) \o <<LF>>
        \o h(NoNode, "ol", <<>>, join(items.out, <<LF>>), TRUE),
        TRUE) \o <<LF>>, items.ctx)

generateFootnotes(ctx) ==
    IF Len(ctx.footnotes) = 0 THEN R(<<>>, ctx)
    ELSE section(footnoteItems(Len(ctx.footnotes),
                               [index |-> 1, results |-> <<>>, ctx |-> ctx]))

RECURSIVE indexDefinitions(_, _)

\* The index keeping the first definition of an identifier.
indexDefinitionsFirstWins(found, definitions) ==
    IF found = <<>> THEN definitions
    ELSE indexDefinitions(Tail(found),
             definitions @@ (toUpperCase(Head(found).identifier) :> Head(found)))

\* Lines 195-197: each definition stored under its upper-cased identifier,
\* a later one replacing an earlier one.
indexDefinitions(found, definitions) ==
    IF found = <<>> THEN definitions
    ELSE indexDefinitions(Tail(found),
             (toUpperCase(Head(found).identifier) :> Head(found)) @@ definitions)

\* root() adding to the store the compilation before left behind.
prepareKeeping(node, ctx) ==
    [ctx EXCEPT !.definitions = indexDefinitions(visitType(node, "definition"), <<>>),
                !.footnotes = @ \o visitType(node, "footnoteDefinition")]

\* Lines 188-201: what root() sets up before it compiles anything.
prepare(node, ctx) ==
    [ctx EXCEPT !.definitions = indexDefinitions(visitType(node, "definition"), <<>>),
                !.footnotes = visitType(node, "footnoteDefinition")]

\* root() without the newline after the compiled children.
rootWithoutNewline(node, ctx) ==
    LET r == allJoined(node, <<LF>>, prepare(node, ctx))
        g == generateFootnotes(r.ctx)
    IN R(r.out \o g.out, g.ctx)

\* Line 205: the return value of root(), `r` being what line 203 gave and
\* `g` what generateFootnotes returned.
rootReturn(r, g) ==
    R((IF r.out # <<>> THEN r.out \o <<LF>> ELSE <<>>) \o g.out, g.ctx)

\* Lines 203-205.
rootCompiled(r) == rootReturn(r, generateFootnotes(r.ctx))

root(node, ctx) == rootCompiled(allJoined(node, <<LF>>, prepare(node, ctx)))

\* The visitor table, lines 767-804, and the dispatch on node.type.
visit(node, parent, ctx) ==
    CASE node.type \in {"yaml", "definition", "footnoteDefinition"} -> ignore(node, ctx)
      [] node.type = "footnote" -> footnote(node, ctx)
      [] node.type = "root" -> root(node, ctx)
      [] node.type = "blockquote" -> blockquote(node, ctx)
      [] node.type = "list" -> list(node, ctx)
      [] node.type = "listItem" -> listItem(node, parent, ctx)
      [] node.type = "paragraph" -> paragraph(node, ctx)
      [] node.type = "heading" -> heading(node, ctx)
      [] node.type = "table" -> table(node, ctx)
      [] node.type = "code" -> code(node, ctx)
      [] node.type = "html" -> html(node, ctx)
      [] node.type = "horizontalRule" -> rule(node, ctx)
      [] node.type = "inlineCode" -> inlineCode(node, ctx)
      [] node.type = "strong" -> strong(node, ctx)
      [] node.type = "emphasis" -> emphasis(node, ctx)
      [] node.type = "break" -> hardBreak(node, ctx)
      [] node.type = "link" -> link(node, ctx)
      [] node.type = "image" -> image(node, ctx)
      [] node.type = "footnoteReference" -> footnoteReference(node, ctx)
      [] node.type = "linkReference" -> linkReference(node, ctx)
      [] node.type = "imageReference" -> imageReference(node, ctx)
      [] node.type = "delete" -> strikethrough(node, ctx)
      [] node.type = "text" -> text(node, ctx)
      [] node.type = "escape" -> escape(node, ctx)

(***************************************************************************)
(* The compiler object and the calls made on it.                           *)
(*                                                                         *)
(*   pending  the calls the driver has still to make, in order             *)
(*   self     the compiler object: definitions, footnotes, options         *)
(*   result   what the last call returned                                  *)
(*   log      the calls made so far, each with what it returned            *)
(***************************************************************************)

Call(op, node, parent) == [op |-> op, node |-> node, parent |-> parent]

\* The compiler object as constructed, before any tree is compiled.
NewCompiler(sanitize) ==
    [definitions |-> <<>>, footnotes |-> <<>>, options |-> [sanitize |-> sanitize]]

Returned(r) ==
    /\ result' = r.out
    /\ self' = r.ctx
    /\ log' = Append(log, [call |-> Head(pending), out |-> r.out])
    /\ pending' = Tail(pending)

\* The driver compiles the next tree.
Root ==
    /\ pending # <<>>
    /\ Head(pending).op = "root"
    /\ Returned(root(Head(pending).node, self))

\* A visitor collects the compiled children of a node.
All ==
    /\ pending # <<>>
    /\ Head(pending).op = "all"
    /\ Returned(all(Head(pending).node, self))

\* A list compiles one of its items.
ListItem ==
    /\ pending # <<>>
    /\ Head(pending).op = "listItem"
    /\ Returned(listItem(Head(pending).node, Head(pending).parent, self))

\* A table is compiled.
Table ==
    /\ pending # <<>>
    /\ Head(pending).op = "table"
    /\ Returned(table(Head(pending).node, self))

(***************************************************************************)
(* Input nodes.                                                            *)
(***************************************************************************)

Text(value) == [type |-> "text", value |-> value]

Html(value) == [type |-> "html", value |-> value]

Escape(value) == [type |-> "escape", value |-> value]

Break == [type |-> "break"]

Para(children) == [type |-> "paragraph", children |-> children]

RootOf(children) == [type |-> "root", children |-> children]

\* The sequences over S of length 0..n.
SeqUpTo(S, n) == UNION {[1..k -> S] : k \in 0..n}

Compilers == {NewCompiler(b) : b \in BOOLEAN}

\* The call the last action made, and the node it was made on.
lastCall == log[Len(log)].call

lastNode == lastCall.node

Did(op) == log # <<>> /\ lastCall.op = op

(***************************************************************************)
(* all(parent) on the children of a paragraph.                             *)
(***************************************************************************)

MaxChildren == 3

Inline ==
    {Text(<<"a">>), Text(<<" ", "b">>), Text(<<>>), Text(<<" ">>),
     Break, Escape(<<"\n">>), Html(<<"\n", " ", "c">>)}

InitAll ==
    /\ pending \in {<<Call("all", Para(children), NoNode)>> :
                       children \in SeqUpTo(Inline, MaxChildren)}
    /\ self \in Compilers
    /\ result = <<>>
    /\ log = <<>>

NextAll == All

SpecAll == InitAll /\ [][NextAll]_vars

\* A hard break, or an escape node whose value is a newline.
BreakLike(node) ==
    IF node.type = "escape" THEN node.value = <<"\n">> ELSE node.type = "break"

\* What child i of the node of the last call compiles to.
compiled(i) == visit(lastNode.children[i], lastNode, self).out

NonEmpty == {i \in 1..Len(lastNode.children) : compiled(i) # <<>>}

\* The place in the returned array of the value of child i.
Rank(i) == Cardinality({j \in NonEmpty : j <= i})

\* A break before child j with nothing but empty values in between.
BreakBeforeSkippingEmpty(j) ==
    \E i \in 1..(j - 1) :
        /\ BreakLike(lastNode.children[i])
        /\ \A m \in (i + 1)..(j - 1) : compiled(m) = <<>>

BreakRightBefore(j) == j > 1 /\ BreakLike(lastNode.children[j - 1])

\* C6 as stated: the first non-empty value after a break, however many
\* empty values lie between, is collected with its leading whitespace
\* stripped; every other value is collected unchanged; empty values are not
\* collected.
C6_AsStated ==
    Did("all") =>
        /\ Len(result) = Cardinality(NonEmpty)
        /\ \A j \in NonEmpty :
              result[Rank(j)] = IF BreakBeforeSkippingEmpty(j)
                                THEN trimLeft(compiled(j)) ELSE compiled(j)

\* C6 amended: a non-empty value is collected with its leading whitespace
\* stripped exactly when the child right before it is a break or an escaped
\* newline, whatever that child and the ones before compiled to; every other
\* value is collected unchanged; empty compiled values are not collected.
C6_BreakTrim ==
    Did("all") =>
        /\ Len(result) = Cardinality(NonEmpty)
        /\ \A j \in NonEmpty :
              result[Rank(j)] = IF BreakRightBefore(j)
                                THEN trimLeft(compiled(j)) ELSE compiled(j)

\* A value with leading whitespace right after a break was collected
\* stripped.
C6_Witness ==
    /\ Did("all")
    /\ \E j \in NonEmpty :
          /\ BreakRightBefore(j)
          /\ compiled(j) # <<>>
          /\ IsSpace(Head(compiled(j)))
          /\ result[Rank(j)] = trimLeft(compiled(j))
          /\ result[Rank(j)] # <<>>

(***************************************************************************)
(* listItem(node, parent).                                                 *)
(***************************************************************************)

MaxItemChildren == 2

ItemChildren ==
    {Para(<<Text(<<"a">>)>>), Para(<<>>), Para(<<Text(<<"a">>), Text(<<"b">>)>>),
     Text(<<"b">>), Html(<<"c">>)}

ListOf(loose, children) ==
    [type |-> "list", ordered |-> FALSE, loose |-> loose, children |-> children]

Item(children) == [type |-> "listItem", children |-> children]

\* A parent list, loose or tight, and the object generateFootnotes passes.
ItemParents == {ListOf(TRUE, <<>>), ListOf(FALSE, <<>>), [type |-> "object"]}

InitListItem ==
    /\ pending \in {<<Call("listItem", Item(children), parent)>> :
                       children \in SeqUpTo(ItemChildren, MaxItemChildren),
                       parent \in ItemParents}
    /\ self \in Compilers
    /\ result = <<>>
    /\ log = <<>>

NextListItem == ListItem

SpecListItem == InitListItem /\ [][NextListItem]_vars

Tight(parent) == ~ ("loose" \in DOMAIN parent /\ parent.loose)

\* The sole child's children joined with nothing, handed to the element
\* builder without the block layout.
UnwrappedForm(node) ==
    h(node, "li", <<>>, join(all(node.children[1], self).out, <<>>), FALSE)

\* The item's own children joined by a newline, handed to the element
\* builder with the block layout.
WrappedForm(node) ==
    h(node, "li", <<>>, join(all(node, self).out, <<LF>>), TRUE)

\* C5 as stated: the unwrapped form exactly when the parent is tight, the
\* item has one child and that child has a non-empty child sequence; the
\* wrapped form in every other case.
C5_AsStated ==
    Did("listItem") =>
        LET node == lastNode
            unwrap == /\ Tight(lastCall.parent)
                      /\ Len(node.children) = 1
                      /\ HasChildren(node.children[1])
                      /\ node.children[1].children # <<>>
        IN result = IF unwrap THEN UnwrappedForm(node) ELSE WrappedForm(node)

\* C5 amended: the unwrapped form exactly when the parent is tight, the
\* item has one child and that child has a child sequence, empty or not;
\* the wrapped form in every other case.
C5_TightUnwrap ==
    Did("listItem") =>
        LET node == lastNode
            unwrap == /\ Tight(lastCall.parent)
                      /\ Len(node.children) = 1
                      /\ HasChildren(node.children[1])
        IN /\ result = IF unwrap THEN UnwrappedForm(node) ELSE WrappedForm(node)
           /\ unwrap => UnwrappedForm(node) # WrappedForm(node)

\* A tight item whose sole child has an empty child sequence was rendered
\* unwrapped, as an empty item.
C5_Witness ==
    /\ Did("listItem")
    /\ Tight(lastCall.parent)
    /\ Len(lastNode.children) = 1
    /\ HasChildren(lastNode.children[1])
    /\ lastNode.children[1].children = <<>>
    /\ result = <<Open("li", <<>>), Close("li")>>

(***************************************************************************)
(* table(node).                                                            *)
(***************************************************************************)

MaxRows == 2

MaxCols == 2

\* An alignment, or null for a column without one.
Alignments == {"left", UNDEF}

Cell(children) == [type |-> "tableCell", children |-> children]

\* A row may have fewer cells than there are columns, or one more; at most
\* one of its cells, cell e, is without content.
Rows == {[type |-> "tableRow",
          children |-> [k \in 1..n |-> IF k = e THEN Cell(<<>>)
                                       ELSE Cell(<<Text(<<"a">>)>>)]] :
            n \in 0..(MaxCols + 1), e \in 0..(MaxCols + 1)}

Tables ==
    {[type |-> "table", align |-> align, children |-> rows] :
        align \in SeqUpTo(Alignments, MaxCols),
        rows \in SeqUpTo(Rows, MaxRows) \ {<<>>}}

InitTable ==
    /\ pending \in {<<Call("table", node, NoNode)>> : node \in Tables}
    /\ self \in Compilers
    /\ result = <<>>
    /\ log = <<>>

NextTable == Table

SpecTable == InitTable /\ [][NextTable]_vars

\* An element written with its attributes, content and layout spelled out.
Element(name, attrs, content, block) ==
    <<Open(name, attrs)>>
    \o (IF block THEN <<LF>> ELSE <<>>)
    \o content
    \o (IF block /\ content # <<>> THEN <<LF>> ELSE <<>>)
    \o <<Close(name)>>

AlignAttr(value) == IF value = UNDEF THEN <<>> ELSE <<<<"align", value>>>>

\* The cell of row i in column j: the row's j-th cell, empty when the row
\* has none, with the alignment of column j.
ExpectedCell(node, i, j) ==
    LET row == node.children[i].children
        content == IF j <= Len(row)
                   THEN join(all(row[j], self).out, <<LF>>) ELSE <<>>
    IN Element(IF i = 1 THEN "th" ELSE "td", AlignAttr(node.align[j]), content, FALSE)

\* Row i: one cell per entry of align, in column order.
ExpectedRow(node, i) ==
    Element("tr", <<>>,
            join([j \in 1..Len(node.align) |-> ExpectedCell(node, i, j)], <<LF>>),
            TRUE)

\* C9: the rows in input order, row 0 of header cells in one header section,
\* the other rows of data cells in one body section that is there even when
\* empty, every row with one cell per entry of align, in column order, the
\* cell of column i carrying align[i] and empty when the row has no such cell.
C9_TableLayout ==
    Did("table") =>
        LET node == lastNode
            n == Len(node.children)
        IN result =
             Element("table", <<>>,
                 Element("thead", <<>>, ExpectedRow(node, 1), TRUE)
                 \o <<LF>>
                 \o Element("tbody", <<>>,
                        join([i \in 1..(n - 1) |-> ExpectedRow(node, i + 1)], <<LF>>),
                        TRUE),
                 TRUE)

\* Number of tokens of `value` that open an element called `name`.
CountOpen(value, name) ==
    Cardinality({p \in 1..Len(value) : value[p].kind = "open" /\ value[p].name = name})

\* A table of two rows and two columns whose second row has one cell only
\* was compiled: both rows have two cells, the missing one aligned.
C9_Witness ==
    /\ Did("table")
    /\ Len(lastNode.children) = 2
    /\ Len(lastNode.align) = 2
    /\ lastNode.align[2] = "left"
    /\ Len(lastNode.children[1].children) = 3
    /\ Len(lastNode.children[2].children) = 1
    /\ CountOpen(result, "tr") = 2
    /\ CountOpen(result, "th") = 2
    /\ CountOpen(result, "td") = 2
    /\ \E p \in 1..(Len(result) - 1) :
          /\ result[p] = Open("td", <<<<"align", "left">>>>)
          /\ result[p + 1] = Close("td")

(***************************************************************************)
(* root(node) on trees with footnotes.                                     *)
(***************************************************************************)

Footnote(children) == [type |-> "footnote", children |-> children]

FootnoteDefinition(identifier, children) ==
    [type |-> "footnoteDefinition", identifier |-> identifier, children |-> children]

MaxBlocks == 3

FootnoteBlocks ==
    {Para(<<Text(<<"a">>)>>),
     Para(<<Footnote(<<Text(<<"b">>)>>)>>),
     Para(<<Footnote(<<>>)>>),
     Para(<<Footnote(<<Text(<<"a">>), Footnote(<<Text(<<"b">>)>>)>>)>>),
     Para(<<Footnote(<<Footnote(<<Footnote(<<>>)>>)>>)>>),
     FootnoteDefinition("1", <<Para(<<Text(<<"a">>)>>)>>),
     FootnoteDefinition("2", <<>>),
     FootnoteDefinition("a", <<Para(<<Footnote(<<Text(<<"b">>)>>)>>)>>),
     Html(<<"c", "\n">>)}

InitFootnotes ==
    /\ pending \in {<<Call("root", RootOf(children), NoNode)>> :
                       children \in SeqUpTo(FootnoteBlocks, MaxBlocks)}
    /\ self \in Compilers
    /\ result = <<>>
    /\ log = <<>>

NextFootnotes == Root

SpecFootnotes == InitFootnotes /\ [][NextFootnotes]_vars

\* The explicit definitions and the inline footnotes of the compiled tree.
Explicit == visitType(lastNode, "footnoteDefinition")

InlineFootnotes == visitType(lastNode, "footnote")

StoreIds(k) == {self.footnotes[i].identifier : i \in 1..k}

\* The smallest positive integer whose string form is not in `used`.
SmallestUnused(used) ==
    CHOOSE n \in 1..(Cardinality(used) + 1) :
        /\ String(n) \notin used
        /\ \A m \in 1..(n - 1) : String(m) \in used

\* Every record past the explicit ones has the smallest identifier that no
\* record before it has.
AllocatedMinimal ==
    \A k \in (Len(Explicit) + 1)..Len(self.footnotes) :
        self.footnotes[k].identifier = String(SmallestUnused(StoreIds(k - 1)))

\* C1 as stated: N + M records, identifiers pairwise distinct, each
\* allocated one the smallest positive integer unused at its allocation.
C1_AsStated ==
    Did("root") =>
        /\ Len(self.footnotes) = Len(InlineFootnotes) + Len(Explicit)
        /\ \A i, j \in 1..Len(self.footnotes) :
              i # j => self.footnotes[i].identifier # self.footnotes[j].identifier
        /\ AllocatedMinimal

IsFootnoteItem(tok) ==
    /\ tok.kind = "open"
    /\ tok.name = "li"
    /\ tok.attrs # <<>>
    /\ tok.attrs[1][1] = "id"

\* The id attributes of the items of the footnote section, in order.
ItemIds(value) ==
    LET items == SelectSeq(value, IsFootnoteItem) IN
    [k \in 1..Len(items) |-> items[k].attrs[1][2]]

SectionOpen == Open("div", <<<<"class", "footnotes">>>>)

HasSection(value) == \E p \in 1..Len(value) : value[p] = SectionOpen

\* C2: when root returns, the footnote section has one item for each record
\* in the store, in store order, and there is no section when the store is
\* empty.
C2_AsStated ==
    Did("root") =>
        /\ ItemIds(result) =
              [k \in 1..Len(self.footnotes) |-> "fn-" \o self.footnotes[k].identifier]
        /\ (self.footnotes = <<>>) = ~ HasSection(result)

\* The positions of the footnote items in `value`, in order.
ItemPositions(value) == {p \in 1..Len(value) : IsFootnoteItem(value[p])}

BackrefOpen(identifier) ==
    Open("a", <<<<"href", "#fnref-" \o identifier>>, <<"class", "footnote-backref">>>>)

\* C10: the item of every record, one with no children included, has the id
\* fn-{identifier} and ends with the back-reference anchor whose href is
\* #fnref-{identifier}.
C10_AsStated ==
    Did("root") =>
        \A p \in ItemPositions(result) :
            LET k == Cardinality({q \in ItemPositions(result) : q <= p})
                identifier == self.footnotes[k].identifier
                later == {q \in ItemPositions(result) : q > p}
                end == IF later = {} THEN Len(result)
                       ELSE CHOOSE q \in later : \A q2 \in later : q <= q2
            IN /\ result[p].attrs[1][2] = "fn-" \o identifier
               /\ \E q \in (p + 1)..end : result[q] = BackrefOpen(identifier)

\* The last token of a string is a newline.
EndsWithNewline(value) == value # <<>> /\ value[Len(value)] = LF

EndsWithOneNewline(value) ==
    /\ EndsWithNewline(value)
    /\ Len(value) > 1 => value[Len(value) - 1] # LF

JoinedChildren == allJoined(lastNode, <<LF>>, prepare(lastNode, self)).out

Definition(identifier, uri, title) ==
    [type |-> "definition", identifier |-> identifier, link |-> uri, title |-> title]

UntitledDefinition(identifier, uri) ==
    [type |-> "definition", identifier |-> identifier, link |-> uri]

LinkReference(identifier, referenceType, children) ==
    [type |-> "linkReference", identifier |-> identifier,
     referenceType |-> referenceType, children |-> children]

ImageReference(identifier, referenceType, alt) ==
    [type |-> "imageReference", identifier |-> identifier,
     referenceType |-> referenceType, alt |-> alt]

Blockquote(children) == [type |-> "blockquote", children |-> children]

MaxRefBlocks == 3

ReferenceBlocks ==
    {Definition(<<"f", "o">>, "u1", "t1"),
     UntitledDefinition(<<"F", "O">>, "u 2"),
     Definition(<<"x">>, "", "t3"),
     Blockquote(<<Definition(<<"f", "o">>, "u3", "t3")>>),
     Para(<<LinkReference(<<"F", "o">>, "shortcut", <<Text(<<"a">>)>>)>>),
     Para(<<LinkReference(<<"f", "o">>, "full", <<Text(<<"a">>)>>)>>),
     Para(<<ImageReference(<<"x">>, "shortcut", <<"b">>)>>),
     Para(<<LinkReference(<<"b">>, "shortcut", <<Text(<<"b">>)>>)>>),
     Para(<<ImageReference(<<"b">>, "collapsed", <<"b">>)>>),
     Para(<<LinkReference(<<"X">>, "full", <<Text(<<"a">>)>>)>>)}

InitReferences ==
    /\ pending \in {<<Call("root", RootOf(children), NoNode)>> :
                       children \in SeqUpTo(ReferenceBlocks, MaxRefBlocks)}
    /\ self \in Compilers
    /\ result = <<>>
    /\ log = <<>>

NextReferences == Root

SpecReferences == InitReferences /\ [][NextReferences]_vars

LowerChar(c) ==
    CASE c = "A" -> "a"
      [] c = "B" -> "b"
      [] c = "F" -> "f"
      [] c = "O" -> "o"
      [] c = "X" -> "x"
      [] OTHER -> c

\* Two identifiers are equal ignoring letter case.
SameIgnoringCase(a, b) ==
    /\ Len(a) = Len(b)
    /\ \A i \in 1..Len(a) : LowerChar(a[i]) = LowerChar(b[i])

\* The references of the compiled tree and its definitions, in document
\* order.
References == visitType(lastNode, "linkReference") \o visitType(lastNode, "imageReference")

DefinitionNodes == visitType(lastNode, "definition")

\* The positions in DefinitionNodes of the definitions a reference names.
Matching(ref) ==
    {i \in 1..Len(DefinitionNodes) :
        SameIgnoringCase(DefinitionNodes[i].identifier, ref.identifier)}

\* The last of them in document order.
LastMatching(ref) ==
    DefinitionNodes[CHOOSE i \in Matching(ref) : \A j \in Matching(ref) : j <= i]

\* What the reference compiles to in the compiler object root() built.
Rendered(ref) == visit(ref, NoNode, self).out

Contains(value, part) ==
    \E p \in 0..(Len(value) - Len(part)) : SubSeq(value, p + 1, p + Len(part)) = part

\* The attributes an element shows of a definition: the normalised link
\* under `name`, the alt text of an image, and the title.
ShownAttributes(name, ref, uri, title) ==
    (IF uri = "" THEN <<>> ELSE <<<<name, normalizeURI(uri)>>>>)
    \o (IF ref.type = "imageReference" /\ ref.alt # <<>>
        THEN <<<<"alt", Concat(ref.alt)>>>> ELSE <<>>)
    \o (IF title = UNDEF THEN <<>> ELSE <<<<"title", title>>>>)

IsElement(value) == value # <<>> /\ value[1].kind = "open"

\* C3: a reference resolves to the last definition in document order whose
\* identifier equals its own ignoring letter case, wherever the definition
\* stands in the tree; the href or src and the title that are rendered are
\* those of that definition.
C3_LastDefinitionWins ==
    Did("root") =>
        \A r \in 1..Len(References) :
            LET ref == References[r] IN
            Matching(ref) # {} =>
                LET def == LastMatching(ref) IN
                /\ lookup(self.definitions, ref.identifier) = def
                /\ Contains(result, Rendered(ref))
                /\ IsElement(Rendered(ref)) =>
                      Rendered(ref)[1].attrs =
                          ShownAttributes(IF ref.type = "linkReference"
                                          THEN "href" ELSE "src",
                                          ref, def.link, Field(def, "title"))

\* A reference written "Fo" stands before two definitions written "fo" and
\* "FO": it was rendered with the link of the second one.
C3_Witness ==
    /\ Did("root")
    /\ Len(lastNode.children) = 3
    /\ lastNode.children[1].type = "paragraph"
    /\ lastNode.children[2] = Definition(<<"f", "o">>, "u1", "t1")
    /\ lastNode.children[3] = UntitledDefinition(<<"F", "O">>, "u 2")
    /\ Contains(result, <<Open("a", <<<<"href", "u%202">>>>), Ch("a"), Close("a")>>)

\* The literal bracketed form of a reference.
BracketForm(ref) ==
    (IF ref.type = "imageReference" THEN <<Ch("!")>> ELSE <<>>)
    \o <<Ch("[")>>
    \o (IF ref.type = "imageReference" THEN Str(ref.alt)
        ELSE allJoined(ref, <<>>, self).out)
    \o <<Ch("]")>>

\* The anchor or image element of a reference; `def` is the definition it
\* resolves to, or an object without fields.
ElementForm(ref, def) ==
    LET uri == IF "link" \in DOMAIN def THEN def.link ELSE ""
        title == Field(def, "title")
    IN IF ref.type = "imageReference"
       THEN <<Open("img", ShownAttributes("src", ref, uri, title))>>
       ELSE <<Open("a", ShownAttributes("href", ref, uri, title))>>
            \o allJoined(ref, <<>>, self).out \o <<Close("a")>>

\* C4: a reference compiles to the bracketed form exactly when it is a
\* shortcut reference and no definition resolves for its identifier; in
\* every other case it compiles to the anchor or image element, with empty
\* href or src and no title when no definition resolves.
C4_AsStated ==
    Did("root") =>
        \A r \in 1..Len(References) :
            LET ref == References[r] IN
            Rendered(ref) =
                IF ref.referenceType = "shortcut" /\ Matching(ref) = {}
                THEN BracketForm(ref)
                ELSE ElementForm(ref, IF Matching(ref) = {} THEN [type |-> "object"]
                                      ELSE LastMatching(ref))

(***************************************************************************)
(* One compiler object compiling several trees, one after the other.       *)
(***************************************************************************)

MaxCompiles == 3

Trees ==
    {RootOf(<<>>),
     RootOf(<<Para(<<Text(<<"a">>)>>)>>),
     RootOf(<<Para(<<Footnote(<<Text(<<"b">>)>>)>>)>>),
     RootOf(<<FootnoteDefinition("1", <<Para(<<Text(<<"a">>)>>)>>),
              Para(<<Footnote(<<Text(<<"b">>)>>), Footnote(<<>>)>>)>>),
     RootOf(<<Para(<<LinkReference(<<"f", "o">>, "shortcut", <<Text(<<"a">>)>>)>>)>>),
     RootOf(<<Para(<<LinkReference(<<"f", "o">>, "full", <<Text(<<"a">>)>>)>>),
              Definition(<<"F", "O">>, "u1", "t1")>>),
     RootOf(<<Para(<<ImageReference(<<"x">>, "collapsed", <<"b">>)>>),
              UntitledDefinition(<<"x">>, "u 2")>>)}

InitTwice ==
    /\ pending \in {[k \in DOMAIN trees |-> Call("root", trees[k], NoNode)] :
                       trees \in SeqUpTo(Trees, MaxCompiles)}
    /\ self \in Compilers
    /\ result = <<>>
    /\ log = <<>>

NextTwice == Root

SpecTwice == InitTwice /\ [][NextTwice]_vars

\* What a compiler object that has compiled nothing yet makes of the tree.
Fresh(node) == root(node, NewCompiler(self.options.sanitize))

\* C8: a tree compiles to the same string every time it is compiled, and a
\* compilation sees nothing of the compilations before it: its output, its
\* definition index and its footnote store are those of a compiler object
\* that has compiled nothing before.
C8_NothingSurvives ==
    /\ \A i, j \in 1..Len(log) :
          log[i].call.node = log[j].call.node => log[i].out = log[j].out
    /\ Did("root") =>
          /\ result = Fresh(lastNode).out
          /\ self = Fresh(lastNode).ctx

\* A tree with footnotes compiled, then another tree with footnotes and
\* more of them, then the first again, to the same output.
C8_Witness ==
    /\ Len(log) = 3
    /\ log[1].call.node = log[3].call.node
    /\ log[1].call.node # log[2].call.node
    /\ Len(visitType(log[1].call.node, "footnote")) = 1
    /\ Len(visitType(log[2].call.node, "footnote")) = 2
    /\ HasSection(log[3].out)
    /\ log[3].out = log[1].out
    /\ Len(self.footnotes) = 1

====
